---- MODULE Spec2Model ----
(***************************************************************************)
(* Model of the rugix-isolator library                                     *)
(* (crates/libs/rugix-isolator/src/lib.rs): the Isolator builder, the      *)
(* isolate() call with its clone, the parent side (pidfd, uid/gid maps,    *)
(* signal forwarding, waitpid, exit) and the child side (barrier read,     *)
(* mount-private, bind mounts, chroot), as two processes that interleave.  *)
(***************************************************************************)
EXTENDS Integers, Sequences, FiniteSets, TLC

(* ---- bounds of the model ---- *)
MaxMounts == 2
MaxDeliveries == 1
MaxWaits == 1

(* ---- program constants ---- *)
SIGHUP == 1
SIGINT == 2
SIGQUIT == 3
SIGKILL == 9
SIGUSR1 == 10
SIGUSR2 == 12
SIGTERM == 15
NoPidfd == -1
EPERM == 1

FORWARDED_SIGNALS == <<SIGTERM, SIGINT, SIGHUP, SIGQUIT, SIGUSR1, SIGUSR2>>

Range(s) == {s[i] : i \in DOMAIN s}

(* ---- inputs the environment supplies ---- *)
\* /proc/self/status: readable or not; each line is a key and the parsed rest
\* of the line (-1: the rest does not parse as u32).
StatusLine(k, v) == [key |-> k, val |-> v]
StatusFiles ==
    { [ok |-> FALSE, lines |-> <<>>],
      [ok |-> TRUE, lines |-> <<StatusLine("Name:", -1)>>],
      [ok |-> TRUE, lines |-> <<StatusLine("Name:", -1), StatusLine("Threads:", 1)>>],
      [ok |-> TRUE, lines |-> <<StatusLine("Threads:", 2), StatusLine("Threads:", 1)>>],
      [ok |-> TRUE, lines |-> <<StatusLine("Threads:", 3)>>],
      [ok |-> TRUE, lines |-> <<StatusLine("Threads:", 0)>>],
      [ok |-> TRUE, lines |-> <<StatusLine("Threads:", -1), StatusLine("Threads:", 1)>>] }

\* /proc/self/uid_map and /proc/self/gid_map: lines of whitespace-separated tokens.
ParentUidMaps ==
    { << <<1000, 1000, 1>> >> }
ParentGidMaps ==
    { << <<0, 100, 1>>, <<1, 200000, 65536>> >> }

\* Descriptors pidfd_open can return.  It returns the lowest free one: 0, 1, 2
\* are the standard streams, the read end of the pipe was just dropped, and a
\* pidfd is never closed, so the pidfds of earlier calls stay in use.
MaxPidfds == 2
PidFds == 3..(2 + MaxPidfds)
\* exit status of newuidmap / newgidmap
HelperExits == {0, 1}
\* errno of a failing write to /proc/<pid>/uid_map or gid_map (22: EINVAL)
WriteErrnos == {EPERM, 22}
RealIds == {1000}
\* getpwuid: the user name of the real uid, "" when there is no entry.
UserNames == {"alice", ""}
\* A colon-separated field of a line of /etc/subuid or /etc/subgid: its text
\* without surrounding whitespace (a name, or for a numeric text its value,
\* -1 when the text is no number, -2 when it is a number above u32::MAX) and
\* whether whitespace surrounds it.
Field(v) == [v |-> v, ws |-> FALSE]
Padded(v) == [v |-> v, ws |-> TRUE]
\* /etc/subuid, /etc/subgid: readable or not; each line is its fields.
SubidFiles ==
    { [ok |-> FALSE, lines |-> <<>>],
      [ok |-> TRUE, lines |-> << <<Field("bob"), Field(200000), Field(65536)>> >>],
      [ok |-> TRUE, lines |-> << <<Field("alice"), Field(-1), Field(1)>>,
                                 <<Field("bob"), Field(200000), Field(65536)>>,
                                 <<Padded("alice"), Field(100000), Padded(65536)>>,
                                 <<Field("alice"), Field(300000), Field(10)>> >>] }
ExitCodes == {0, 7}

(* ---- wait statuses, as the kernel encodes them ---- *)
ExitedStatus(code) == (code % 256) * 256
\* Killed by sig; bit 0x80 is set when the kernel wrote a core dump.
SignaledStatus(sig, core) == sig + (IF core THEN 128 ELSE 0)
StoppedStatus(sig) == sig * 256 + 127
WIFEXITED(status) == (status % 128) = 0
WEXITSTATUS(status) == (status \div 256) % 256
WIFSIGNALED(status) == (status % 128) # 0 /\ (status % 128) # 127
WTERMSIG(status) == status % 128
\* The signals of this model whose default action is a core dump.
CoreSignals == {SIGQUIT}
\* The wait statuses of a process that sig terminated.
KilledStatuses(sig) ==
    {SignaledStatus(sig, core) : core \in {FALSE} \cup {sig \in CoreSignals}}

(* ---- pure functions ---- *)
\* is_single_threaded: "none", "true" or "false" (Option<bool>).
RECURSIVE ScanThreads(_)
ScanThreads(lines) ==
    IF lines = <<>> THEN "none"
    ELSE IF Head(lines).key = "Threads:"
         THEN IF Head(lines).val < 0 THEN "none"
              ELSE IF Head(lines).val = 1 THEN "true" ELSE "false"
         ELSE ScanThreads(Tail(lines))

\* is_single_threaded with `count >= 1` in place of `count == 1`.
RECURSIVE ScanThreadsAtLeast(_)
ScanThreadsAtLeast(lines) ==
    IF lines = <<>> THEN "none"
    ELSE IF Head(lines).key = "Threads:"
         THEN IF Head(lines).val < 0 THEN "none"
              ELSE IF Head(lines).val >= 1 THEN "true" ELSE "false"
         ELSE ScanThreadsAtLeast(Tail(lines))

is_single_threaded_atleast(status) ==
    IF ~status.ok THEN "none" ELSE ScanThreadsAtLeast(status.lines)

is_single_threaded(status) ==
    IF ~status.ok THEN "none" ELSE ScanThreads(status.lines)

\* IdentityLines that forgets to skip the ID of the parent namespace: the
\* count is taken from the second token.
RECURSIVE IdentityLinesNoSkip(_)
IdentityLinesNoSkip(map) ==
    IF map = <<>> THEN <<>>
    ELSE LET line == Head(map) IN
         IF Len(line) < 2 THEN IdentityLinesNoSkip(Tail(map))
         ELSE << <<line[1], line[1], line[2]>> >> \o IdentityLinesNoSkip(Tail(map))

\* IdentityLines that keeps the line as it is.
RECURSIVE IdentityLinesKeep(_)
IdentityLinesKeep(map) ==
    IF map = <<>> THEN <<>>
    ELSE LET line == Head(map) IN
         IF Len(line) < 3 THEN IdentityLinesKeep(Tail(map))
         ELSE << <<line[1], line[2], line[3]>> >> \o IdentityLinesKeep(Tail(map))

\* make_identity_map: one `inside inside count` line per input line that has
\* a first and a third token; the default line when nothing was produced.
RECURSIVE IdentityLines(_)
IdentityLines(map) ==
    IF map = <<>> THEN <<>>
    ELSE LET line == Head(map) IN
         IF Len(line) < 3 THEN IdentityLines(Tail(map))
         ELSE << <<line[1], line[1], line[3]>> >> \o IdentityLines(Tail(map))

\* make_identity_map without the default line.
make_identity_map_no_default(map) == IdentityLines(map)

make_identity_map(map) ==
    LET result == IdentityLines(map) IN
    IF result = <<>> THEN << <<0, 0, 1>> >> ELSE result

\* str::trim
trim(f) == [f EXCEPT !.ws = FALSE]
\* str::parse::<u32>, -1 standing for Err: surrounding whitespace, a text that
\* is no number and a number above u32::MAX do not parse.
parse_u32(f) == IF ~f.ws /\ f.v >= 0 THEN f.v ELSE -1

\* ScanSubid that gives up at the first line of the user that does not parse.
RECURSIVE ScanSubidStopsAtBad(_, _)
ScanSubidStopsAtBad(lines, username) ==
    IF lines = <<>> THEN [tag |-> "none", start |-> -1, count |-> -1]
    ELSE LET line == Head(lines)
             start == IF Len(line) < 2 THEN -1 ELSE parse_u32(trim(line[2]))
             count == IF Len(line) < 3 THEN -1 ELSE parse_u32(trim(line[3])) IN
         IF Len(line) < 1 \/ trim(line[1]) # Field(username)
         THEN ScanSubidStopsAtBad(Tail(lines), username)
         ELSE IF start < 0 \/ count < 0 THEN [tag |-> "none", start |-> -1, count |-> -1]
         ELSE [tag |-> "some", start |-> start, count |-> count]

\* parse_subid_file: the first line whose name matches and whose start and
\* count parse; tag "err" (unreadable), "none" or "some".
RECURSIVE ScanSubid(_, _)
ScanSubid(lines, username) ==
    IF lines = <<>> THEN [tag |-> "none", start |-> -1, count |-> -1]
    ELSE LET line == Head(lines)
             start == IF Len(line) < 2 THEN -1 ELSE parse_u32(trim(line[2]))
             count == IF Len(line) < 3 THEN -1 ELSE parse_u32(trim(line[3])) IN
         IF Len(line) < 1 \/ trim(line[1]) # Field(username)
         THEN ScanSubid(Tail(lines), username)
         ELSE IF start < 0 THEN ScanSubid(Tail(lines), username)
         ELSE IF count < 0 THEN ScanSubid(Tail(lines), username)
         ELSE [tag |-> "some", start |-> start, count |-> count]

parse_subid_file(file, username) ==
    IF ~file.ok THEN [tag |-> "err", start |-> -1, count |-> -1]
    ELSE ScanSubid(file.lines, username)

\* The map the setuid helper writes for its arguments `0 <real> 1 1 <start> <count>`.
HelperMap(real, sub) == << <<0, real, 1>>, <<1, sub.start, sub.count>> >>

VARIABLES
    bind_mounts,        \* Isolator.bind_mounts: sequence of BindMount
    chroot_path,        \* Isolator.chroot_path: "none" or "some"
    bind_calls,         \* the builder methods that added a bind mount, in call order
    ppc,                \* position of the calling (parent) process
    cpc,                \* position of the cloned child process
    presult,            \* what isolate() returned in the parent ("none": not returned)
    cresult,            \* what isolate() returned in the child ("none": not returned)
    pexit,              \* status the parent passed to process::exit (-1: none)
    parent_uid_map,     \* content read from /proc/self/uid_map
    parent_gid_map,     \* content read from /proc/self/gid_map
    pipe,               \* the barrier pipe: who holds which end, bytes in it
    cproc,              \* the child process: "none", "alive", "zombie", "reaped"
    cstatus,            \* wait status of the terminated child
    csig,               \* signals sent to the child and not yet acted on
    CHILD_PIDFD,        \* the process-wide atomic
    uid_map,            \* /proc/<child>/uid_map (<<>>: unwritten)
    gid_map,            \* /proc/<child>/gid_map (<<>>: unwritten)
    helper,             \* helper path: real ids and subordinate ranges found
    map_error,          \* the error write_maps returned ("none": none)
    handlers,           \* signals whose disposition is forward_signal_handler
    delivered,          \* signals for which forward_signal_handler ran, in order
    sent,               \* pidfd_send_signal calls made, in order: <<pidfd, sig>>
    wait_result,        \* what wait_for_child returned
    waits,              \* waitpid results that were neither exited nor signaled
    proc_status,        \* content of /proc/self/status of the calling process
    write_errno,        \* outcome of the direct writes of uid_map and gid_map
    fn_in,              \* argument of a function applied on its own
    fn_out,             \* the results of applying it, in order
    plog,               \* steps the parent has taken, in order
    clog                \* steps the child has taken, in order

vars == <<bind_mounts, chroot_path, bind_calls, ppc, cpc, presult, cresult,
          pexit, parent_uid_map, parent_gid_map, pipe, cproc, cstatus,
          csig, CHILD_PIDFD, uid_map, gid_map, helper, map_error, handlers,
          delivered, sent, wait_result, waits, proc_status, write_errno,
          fn_in, fn_out, plog, clog>>

cfgVars == <<bind_mounts, chroot_path, bind_calls>>
childVars == <<cpc, cresult, cproc, cstatus, csig, clog>>
mapVars == <<uid_map, gid_map, helper, map_error>>
sigVars == <<handlers, delivered, sent>>
waitVars == <<wait_result, waits>>
readVars == <<parent_uid_map, parent_gid_map>>
envVars == <<proc_status, fn_in, fn_out>>

NoPipe == [made |-> FALSE, readers |-> {}, writers |-> {}, bytes |-> 0]
NoReason == [tag |-> "none", val |-> 0]
NoRange == [start |-> -1, count |-> -1]
NoHelper == [real_uid |-> -1, real_gid |-> -1, username |-> "",
             subuid |-> NoRange, subgid |-> NoRange,
             uid_exit |-> -1, gid_exit |-> -1, running |-> "none"]

NoWrites == [uid |-> -1, gid |-> -1]
NoFile == [ok |-> FALSE, lines |-> <<>>]
NoCall == [fn |-> "none", map |-> <<>>, file |-> NoFile, username |-> ""]

\* Isolator::new, in a process that has not called isolate() yet
InitIsolator ==
    /\ bind_mounts = <<>>
    /\ chroot_path = "none"
    /\ bind_calls = <<>>
    /\ ppc = "build"
    /\ cpc = "none"
    /\ presult = "none"
    /\ cresult = "none"
    /\ pexit = -1
    /\ parent_uid_map = <<>>
    /\ parent_gid_map = <<>>
    /\ pipe = NoPipe
    /\ cproc = "none"
    /\ cstatus = -1
    /\ csig = {}
    /\ CHILD_PIDFD = NoPidfd
    /\ uid_map = <<>>
    /\ gid_map = <<>>
    /\ helper = NoHelper
    /\ map_error = "none"
    /\ handlers = {}
    /\ delivered = <<>>
    /\ sent = <<>>
    /\ wait_result = NoReason
    /\ waits = 0
    /\ write_errno = NoWrites
    /\ plog = <<>>
    /\ clog = <<>>

Init ==
    /\ InitIsolator
    /\ proc_status \in StatusFiles
    /\ fn_in = NoCall
    /\ fn_out = <<>>

(* ---- the builder ---- *)
BindMount(n, rec) == [src |-> n, dst |-> n, recursive |-> rec]

with_bind_mount ==
    /\ ppc = "build"
    /\ Len(bind_mounts) < MaxMounts
    /\ bind_mounts' = Append(bind_mounts, BindMount(Len(bind_mounts) + 1, FALSE))
    /\ bind_calls' = Append(bind_calls, "with_bind_mount")
    /\ UNCHANGED <<chroot_path, ppc, cpc, presult, cresult, pexit,
                   readVars, pipe, cproc, cstatus, csig, CHILD_PIDFD,
                   mapVars, sigVars, waitVars, envVars, write_errno, plog, clog>>

with_recursive_bind_mount ==
    /\ ppc = "build"
    /\ Len(bind_mounts) < MaxMounts
    /\ bind_mounts' = Append(bind_mounts, BindMount(Len(bind_mounts) + 1, TRUE))
    /\ bind_calls' = Append(bind_calls, "with_recursive_bind_mount")
    /\ UNCHANGED <<chroot_path, ppc, cpc, presult, cresult, pexit,
                   readVars, pipe, cproc, cstatus, csig, CHILD_PIDFD,
                   mapVars, sigVars, waitVars, envVars, write_errno, plog, clog>>

with_chroot ==
    /\ ppc = "build"
    /\ chroot_path' = "some"
    /\ UNCHANGED <<bind_mounts, bind_calls, ppc, cpc, presult, cresult, pexit,
                   readVars, pipe, cproc, cstatus, csig, CHILD_PIDFD,
                   mapVars, sigVars, waitVars, envVars, write_errno, plog, clog>>

(* ---- isolate(), up to the clone ---- *)
DropEnds(p, who) == [p EXCEPT !.readers = @ \ {who}, !.writers = @ \ {who}]

\* isolate() returns Err(e) to its caller in the parent; its OwnedFds are dropped.
ParentReturns(e) ==
    /\ presult' = e
    /\ ppc' = "returned"
    /\ pipe' = DropEnds(pipe, "parent")
    /\ pexit' = pexit

\* std::process::exit(code) in the parent; the kernel closes its descriptors.
ParentExits(code) ==
    /\ pexit' = code
    /\ ppc' = "exited"
    /\ pipe' = DropEnds(pipe, "parent")
    /\ presult' = presult

\* eprintln!(..) followed by std::process::exit(1): the status is 1, or 101
\* when the eprintln! panics because stderr cannot be written.
SupervisorExits == {1, 101}
SupervisorFails == \E code \in SupervisorExits : ParentExits(code)

\* The parent goes on to its next step.
ParentGoes(next) ==
    /\ ppc' = next
    /\ presult' = presult
    /\ pexit' = pexit

CheckSingleThreaded ==
    /\ ppc = "build"
    /\ plog' = Append(plog, "check")
    /\ LET r == is_single_threaded(proc_status) IN
       \/ r = "true" /\ ParentGoes("read_uid_map") /\ pipe' = pipe
       \/ r = "false" /\ ParentReturns("process is multi-threaded")
       \/ r = "none" /\ ParentReturns("unable to determine thread count")
    /\ UNCHANGED <<cfgVars, childVars, readVars, CHILD_PIDFD, mapVars,
                   sigVars, waitVars, envVars, write_errno>>

ReadParentUidMap ==
    /\ ppc = "read_uid_map"
    /\ plog' = Append(plog, "read_uid_map")
    /\ \/ \E m \in ParentUidMaps :
            /\ parent_uid_map' = m
            /\ ParentGoes("read_gid_map") /\ pipe' = pipe
       \/ /\ ParentReturns("unable to read parent 'uid_map'")
          /\ parent_uid_map' = parent_uid_map
    /\ UNCHANGED <<cfgVars, childVars, parent_gid_map, CHILD_PIDFD,
                   mapVars, sigVars, waitVars, envVars, write_errno>>

ReadParentGidMap ==
    /\ ppc = "read_gid_map"
    /\ plog' = Append(plog, "read_gid_map")
    /\ \/ \E m \in ParentGidMaps :
            /\ parent_gid_map' = m
            /\ ParentGoes("pipe") /\ pipe' = pipe
       \/ /\ ParentReturns("unable to read parent 'gid_map'")
          /\ parent_gid_map' = parent_gid_map
    /\ UNCHANGED <<cfgVars, childVars, parent_uid_map, CHILD_PIDFD,
                   mapVars, sigVars, waitVars, envVars, write_errno>>

CreatePipe ==
    /\ ppc = "pipe"
    /\ plog' = Append(plog, "pipe")
    /\ \/ /\ pipe' = [made |-> TRUE, readers |-> {"parent"}, writers |-> {"parent"},
                      bytes |-> 0]
          /\ ParentGoes("clone")
       \/ ParentReturns("unable to create pipe")
    /\ UNCHANGED <<cfgVars, childVars, readVars, CHILD_PIDFD, mapVars,
                   sigVars, waitVars, envVars, write_errno>>

\* The raw clone syscall: the child starts with a copy of both pipe ends.
Clone ==
    /\ ppc = "clone"
    /\ plog' = Append(plog, "clone")
    /\ \/ /\ ParentReturns("unable to clone process")
          /\ UNCHANGED <<cproc, cpc>>
       \/ /\ ParentGoes("drop_read")
          /\ pipe' = [pipe EXCEPT !.readers = @ \cup {"child"},
                                  !.writers = @ \cup {"child"}]
          /\ cproc' = "alive"
          /\ cpc' = "drop_write"
    /\ UNCHANGED <<cfgVars, cresult, cstatus, csig, clog, readVars, CHILD_PIDFD,
                   mapVars, sigVars, waitVars, envVars, write_errno>>

\* drop(read_fd) in the parent branch of isolate().
ParentDropRead ==
    /\ ppc = "drop_read"
    /\ pipe' = [pipe EXCEPT !.readers = @ \ {"parent"}]
    /\ ParentGoes("pidfd_open")
    /\ UNCHANGED <<cfgVars, childVars, readVars, CHILD_PIDFD, mapVars,
                   sigVars, waitVars, envVars, write_errno, plog>>

(* ---- parent_run ---- *)
\* The pidfds the process holds: every one it has opened so far.
OpenPidfds(cell) == IF cell = NoPidfd THEN {} ELSE {fd \in PidFds : fd <= cell}
FreePidfds == PidFds \ OpenPidfds(CHILD_PIDFD)
LowestFree(fd) == fd \in FreePidfds /\ \A g \in FreePidfds : fd <= g

\* PidfdOpen that goes on with the map writing when pidfd_open failed.
PidfdOpenGoesOn ==
    /\ ppc = "pidfd_open"
    /\ plog' = Append(plog, "pidfd_open")
    /\ \/ \E fd \in PidFds : LowestFree(fd) /\ CHILD_PIDFD' = fd
       \/ CHILD_PIDFD' = CHILD_PIDFD
    /\ ParentGoes("write_uid_map") /\ pipe' = pipe
    /\ UNCHANGED <<cfgVars, childVars, readVars, mapVars, sigVars,
                   waitVars, envVars, write_errno>>

\* pidfd_open and the store into CHILD_PIDFD; exit(1) when it fails.
PidfdOpen ==
    /\ ppc = "pidfd_open"
    /\ plog' = Append(plog, "pidfd_open")
    /\ \/ \E fd \in PidFds :
            /\ LowestFree(fd)
            /\ CHILD_PIDFD' = fd
            /\ ParentGoes("write_uid_map") /\ pipe' = pipe
       \/ /\ SupervisorFails
          /\ CHILD_PIDFD' = CHILD_PIDFD
    /\ UNCHANGED <<cfgVars, childVars, readVars, mapVars, sigVars,
                   waitVars, envVars, write_errno>>

\* write_maps failed with error e: parent_run goes to its cleanup.
MapsFail(e) ==
    /\ map_error' = e
    /\ ppc' = "kill"

\* WriteUidMap that falls back to the helpers on every error of the write.
WriteUidMapAnyError ==
    /\ ppc = "write_uid_map"
    /\ \/ /\ uid_map' = make_identity_map(parent_uid_map)
          /\ write_errno' = [write_errno EXCEPT !.uid = 0]
          /\ plog' = Append(plog, "write_uid_map")
          /\ ppc' = "write_gid_map"
          /\ map_error' = map_error
       \/ \E e \in WriteErrnos :
            /\ write_errno' = [write_errno EXCEPT !.uid = e]
            /\ plog' = plog \o <<"write_uid_map", "write_maps_with_helpers">>
            /\ ppc' = "get_username"
            /\ UNCHANGED <<uid_map, map_error>>
    /\ UNCHANGED <<cfgVars, childVars, readVars, pipe, CHILD_PIDFD,
                   gid_map, helper, sigVars, waitVars, envVars, presult, pexit>>

\* write_maps: the direct write of uid_map, and the switch to the helpers on EPERM.
WriteUidMap ==
    /\ ppc = "write_uid_map"
    /\ \/ /\ uid_map' = make_identity_map(parent_uid_map)
          /\ write_errno' = [write_errno EXCEPT !.uid = 0]
          /\ plog' = Append(plog, "write_uid_map")
          /\ ppc' = "write_gid_map"
          /\ map_error' = map_error
       \/ /\ write_errno' = [write_errno EXCEPT !.uid = EPERM]
          /\ plog' = plog \o <<"write_uid_map", "write_maps_with_helpers">>
          /\ ppc' = "get_username"
          /\ UNCHANGED <<uid_map, map_error>>
       \/ \E e \in WriteErrnos \ {EPERM} :
            /\ write_errno' = [write_errno EXCEPT !.uid = e]
            /\ plog' = Append(plog, "write_uid_map")
            /\ MapsFail("failed to write uid_map")
            /\ uid_map' = uid_map
    /\ UNCHANGED <<cfgVars, childVars, readVars, pipe, CHILD_PIDFD,
                   gid_map, helper, sigVars, waitVars, envVars, presult, pexit>>

\* WriteGidMap that goes straight to the release, installing no handler.
WriteGidMapNoHandlers ==
    /\ ppc = "write_gid_map"
    /\ plog' = Append(plog, "write_gid_map")
    /\ \/ /\ gid_map' = make_identity_map(parent_gid_map)
          /\ write_errno' = [write_errno EXCEPT !.gid = 0]
          /\ ppc' = "release"
          /\ map_error' = map_error
       \/ \E e \in WriteErrnos :
            /\ write_errno' = [write_errno EXCEPT !.gid = e]
            /\ MapsFail("failed to write gid_map")
            /\ gid_map' = gid_map
    /\ UNCHANGED <<cfgVars, childVars, readVars, pipe, CHILD_PIDFD,
                   uid_map, helper, sigVars, waitVars, envVars, presult, pexit>>

WriteGidMap ==
    /\ ppc = "write_gid_map"
    /\ plog' = Append(plog, "write_gid_map")
    /\ \/ /\ gid_map' = make_identity_map(parent_gid_map)
          /\ write_errno' = [write_errno EXCEPT !.gid = 0]
          /\ ppc' = "install"
          /\ map_error' = map_error
       \/ \E e \in WriteErrnos :
            /\ write_errno' = [write_errno EXCEPT !.gid = e]
            /\ MapsFail("failed to write gid_map")
            /\ gid_map' = gid_map
    /\ UNCHANGED <<cfgVars, childVars, readVars, pipe, CHILD_PIDFD,
                   uid_map, helper, sigVars, waitVars, envVars, presult, pexit>>

(* ---- write_maps_with_helpers ---- *)
GetUsername ==
    /\ ppc = "get_username"
    /\ plog' = Append(plog, "get_username")
    /\ \E uid \in RealIds, gid \in RealIds, name \in UserNames :
         \/ /\ name # ""
            /\ helper' = [helper EXCEPT !.real_uid = uid, !.real_gid = gid,
                                        !.username = name]
            /\ ppc' = "subuid"
            /\ map_error' = map_error
         \/ /\ name = ""
            /\ helper' = [helper EXCEPT !.real_uid = uid, !.real_gid = gid]
            /\ MapsFail("unable to get username")
    /\ UNCHANGED <<cfgVars, childVars, readVars, pipe, CHILD_PIDFD,
                   uid_map, gid_map, sigVars, waitVars, envVars, write_errno, presult, pexit>>

ParseSubuid ==
    /\ ppc = "subuid"
    /\ plog' = Append(plog, "subuid")
    /\ \E file \in SubidFiles :
         LET r == parse_subid_file(file, helper.username) IN
         \/ /\ r.tag = "err"
            /\ MapsFail("failed to parse '/etc/subuid'")
            /\ helper' = helper
         \/ /\ r.tag = "none"
            /\ MapsFail("no subuid entry found")
            /\ helper' = helper
         \/ /\ r.tag = "some"
            /\ helper' = [helper EXCEPT !.subuid = [start |-> r.start, count |-> r.count]]
            /\ ppc' = "subgid"
            /\ map_error' = map_error
    /\ UNCHANGED <<cfgVars, childVars, readVars, pipe, CHILD_PIDFD,
                   uid_map, gid_map, sigVars, waitVars, envVars, write_errno, presult, pexit>>

ParseSubgid ==
    /\ ppc = "subgid"
    /\ plog' = Append(plog, "subgid")
    /\ \E file \in SubidFiles :
         LET r == parse_subid_file(file, helper.username) IN
         \/ /\ r.tag = "err"
            /\ MapsFail("failed to parse '/etc/subgid'")
            /\ helper' = helper
         \/ /\ r.tag = "none"
            /\ MapsFail("no subgid entry found")
            /\ helper' = helper
         \/ /\ r.tag = "some"
            /\ helper' = [helper EXCEPT !.subgid = [start |-> r.start, count |-> r.count]]
            /\ ppc' = "newuidmap"
            /\ map_error' = map_error
    /\ UNCHANGED <<cfgVars, childVars, readVars, pipe, CHILD_PIDFD,
                   uid_map, gid_map, sigVars, waitVars, envVars, write_errno, presult, pexit>>

\* Command::status() is a spawn followed by a wait for the helper.  The
\* helper is a process of its own: it inherits the descriptors of the parent
\* that are not close-on-exec, the write end of the barrier pipe among them,
\* and runs on whether or not the parent lives.
HelperSpawned(name) ==
    /\ helper' = [helper EXCEPT !.running = name]
    /\ pipe' = [pipe EXCEPT !.writers = @ \cup {"helper"}]

\* Command::new("newuidmap")...status(), the spawn: the helper cannot be run,
\* or it is started.
NewUidMap ==
    /\ ppc = "newuidmap"
    /\ plog' = Append(plog, "newuidmap")
    /\ \/ /\ HelperSpawned("newuidmap")
          /\ ppc' = "newuidmap_wait"
          /\ map_error' = map_error
       \/ /\ MapsFail("failed to execute 'newuidmap'")
          /\ UNCHANGED <<helper, pipe>>
    /\ UNCHANGED <<cfgVars, childVars, readVars, CHILD_PIDFD, uid_map,
                   gid_map, sigVars, waitVars, envVars, write_errno, presult, pexit>>

\* The newuidmap process: it ends with a status and has written the map
\* exactly when the status is 0; its descriptors are closed when it ends.
NewUidMapHelper ==
    /\ helper.running = "newuidmap"
    /\ \E st \in HelperExits :
         /\ helper' = [helper EXCEPT !.running = "none", !.uid_exit = st]
         /\ uid_map' = IF st = 0 THEN HelperMap(helper.real_uid, helper.subuid)
                       ELSE uid_map
    /\ pipe' = [pipe EXCEPT !.writers = @ \ {"helper"}]
    /\ UNCHANGED <<cfgVars, ppc, presult, pexit, childVars, readVars, CHILD_PIDFD,
                   gid_map, map_error, sigVars, waitVars, envVars, write_errno,
                   plog>>

\* NewUidMapStatus that goes on to newgidmap whatever the exit status of newuidmap.
NewUidMapStatusIgnored ==
    /\ ppc = "newuidmap_wait" /\ helper.running = "none"
    /\ ppc' = "newgidmap"
    /\ UNCHANGED <<cfgVars, childVars, readVars, pipe, CHILD_PIDFD, mapVars,
                   sigVars, waitVars, envVars, write_errno, presult, pexit, plog>>

\* Command::new("newuidmap")...status(), the wait, and `if !status.success()`.
\* The wait returns once the helper has ended: with its status, or with an
\* error (ECHILD when the caller ignores SIGCHLD), which status() returns.
NewUidMapStatus ==
    /\ ppc = "newuidmap_wait" /\ helper.running = "none"
    /\ \/ IF helper.uid_exit = 0
          THEN ppc' = "newgidmap" /\ map_error' = map_error
          ELSE MapsFail("'newuidmap' failed")
       \/ MapsFail("failed to execute 'newuidmap'")
    /\ UNCHANGED <<cfgVars, childVars, readVars, pipe, CHILD_PIDFD, uid_map,
                   gid_map, helper, sigVars, waitVars, envVars, write_errno,
                   presult, pexit, plog>>

\* Command::new("newgidmap")...status(), the spawn.
NewGidMap ==
    /\ ppc = "newgidmap"
    /\ plog' = Append(plog, "newgidmap")
    /\ \/ /\ HelperSpawned("newgidmap")
          /\ ppc' = "newgidmap_wait"
          /\ map_error' = map_error
       \/ /\ MapsFail("failed to execute 'newgidmap'")
          /\ UNCHANGED <<helper, pipe>>
    /\ UNCHANGED <<cfgVars, childVars, readVars, CHILD_PIDFD, uid_map,
                   gid_map, sigVars, waitVars, envVars, write_errno, presult, pexit>>

\* The newgidmap process.
NewGidMapHelper ==
    /\ helper.running = "newgidmap"
    /\ \E st \in HelperExits :
         /\ helper' = [helper EXCEPT !.running = "none", !.gid_exit = st]
         /\ gid_map' = IF st = 0 THEN HelperMap(helper.real_gid, helper.subgid)
                       ELSE gid_map
    /\ pipe' = [pipe EXCEPT !.writers = @ \ {"helper"}]
    /\ UNCHANGED <<cfgVars, ppc, presult, pexit, childVars, readVars, CHILD_PIDFD,
                   uid_map, map_error, sigVars, waitVars, envVars, write_errno,
                   plog>>

\* Command::new("newgidmap")...status(), the wait, and `if !status.success()`.
NewGidMapStatus ==
    /\ ppc = "newgidmap_wait" /\ helper.running = "none"
    /\ \/ IF helper.gid_exit = 0
          THEN ppc' = "install" /\ map_error' = map_error
          ELSE MapsFail("newgidmap failed")
       \/ MapsFail("failed to execute 'newgidmap'")
    /\ UNCHANGED <<cfgVars, childVars, readVars, pipe, CHILD_PIDFD, uid_map,
                   gid_map, helper, sigVars, waitVars, envVars, write_errno,
                   presult, pexit, plog>>

(* ---- parent_run: cleanup, handlers, release, wait, exit ---- *)
\* KillChild followed by the return of the error, without wait_for_child.
KillChildNoWait ==
    /\ ppc = "kill"
    /\ plog' = Append(plog, "kill")
    /\ \/ /\ csig' = IF cproc = "alive" THEN csig \cup {SIGKILL} ELSE csig
          /\ ParentGoes("return_err") /\ pipe' = pipe
       \/ /\ SupervisorFails
          /\ csig' = csig
    /\ UNCHANGED <<cfgVars, cpc, cresult, cproc, cstatus, clog, readVars,
                   CHILD_PIDFD, mapVars, sigVars, waitVars, envVars, write_errno>>

\* kill(child_pid, SIGKILL) after write_maps failed; exit(1) when the kill fails.
KillChild ==
    /\ ppc = "kill"
    /\ plog' = Append(plog, "kill")
    /\ \/ /\ csig' = IF cproc = "alive" THEN csig \cup {SIGKILL} ELSE csig
          /\ ParentGoes("cleanup_wait") /\ pipe' = pipe
       \/ /\ SupervisorFails
          /\ csig' = csig
    /\ UNCHANGED <<cfgVars, cpc, cresult, cproc, cstatus, clog, readVars, CHILD_PIDFD, mapVars, sigVars, waitVars, envVars, write_errno>>

\* One iteration of the loop of wait_for_child, called at position `at`; the
\* function returns to position `next`.
WaitForChild(at, next) ==
    /\ ppc = at
    /\ plog' = Append(plog, "waitpid")
    /\ \/ /\ SupervisorFails                \* waitpid returned < 0
          /\ UNCHANGED <<cproc, wait_result, waits>>
       \/ \E status \in {cstatus} \cup {StoppedStatus(sg) : sg \in Range(FORWARDED_SIGNALS)} :
            /\ \/ /\ cproc = "zombie" /\ status = cstatus
                  /\ cproc' = "reaped"
                  /\ waits' = waits
               \/ /\ cproc = "alive" /\ status # cstatus /\ waits < MaxWaits
                  /\ cproc' = cproc
                  /\ waits' = waits + 1
            /\ pipe' = pipe
            /\ IF WIFEXITED(status)
               THEN /\ wait_result' = [tag |-> "Exited", val |-> WEXITSTATUS(status)]
                    /\ ParentGoes(next)
               ELSE IF WIFSIGNALED(status)
               THEN /\ wait_result' = [tag |-> "Signaled", val |-> WTERMSIG(status)]
                    /\ ParentGoes(next)
               ELSE /\ wait_result' = wait_result
                    /\ ParentGoes(at)
    /\ UNCHANGED <<cfgVars, cpc, cresult, cstatus, csig, clog, readVars, CHILD_PIDFD, mapVars, sigVars, envVars, write_errno>>

\* wait_for_child(child_pid) of the cleanup path.
WaitAfterKill == WaitForChild("cleanup_wait", "return_err")

\* return Err(error) of the cleanup path.
ReturnMapError ==
    /\ ppc = "return_err"
    /\ plog' = Append(plog, "return_err")
    /\ ParentReturns(map_error)
    /\ UNCHANGED <<cfgVars, childVars, readVars, CHILD_PIDFD, mapVars,
                   sigVars, waitVars, envVars, write_errno>>

\* InstallHandler whose signal() can fail, the error being returned to the
\* caller with the handlers installed so far left in place.
InstallHandlerReturnsError ==
    /\ ppc = "install"
    /\ plog' = Append(plog, "signal")
    /\ LET i == Cardinality(handlers) + 1 IN
       \/ /\ handlers' = handlers \cup {FORWARDED_SIGNALS[i]}
          /\ ParentGoes(IF i = Len(FORWARDED_SIGNALS) THEN "release" ELSE "install")
          /\ pipe' = pipe
       \/ /\ handlers' = handlers
          /\ ParentReturns("unable to install signal handler")
    /\ UNCHANGED <<cfgVars, childVars, readVars, CHILD_PIDFD,
                   mapVars, delivered, sent, waitVars, envVars, write_errno>>

\* One iteration of the loop over FORWARDED_SIGNALS: signal(sig, handler).
InstallHandler ==
    /\ ppc = "install"
    /\ plog' = Append(plog, "signal")
    /\ LET i == Cardinality(handlers) + 1 IN
       /\ handlers' = handlers \cup {FORWARDED_SIGNALS[i]}
       /\ ParentGoes(IF i = Len(FORWARDED_SIGNALS) THEN "release" ELSE "install")
    /\ UNCHANGED <<cfgVars, childVars, readVars, pipe, CHILD_PIDFD,
                   mapVars, delivered, sent, waitVars, envVars, write_errno>>

\* A release that writes a byte into the pipe and keeps the write end open.
ReleaseBarrierByWrite ==
    /\ ppc = "release"
    /\ plog' = Append(plog, "release")
    /\ pipe' = [pipe EXCEPT !.bytes = @ + 1]
    /\ ParentGoes("wait")
    /\ UNCHANGED <<cfgVars, childVars, readVars, CHILD_PIDFD, mapVars,
                   sigVars, waitVars, envVars, write_errno>>

\* drop(write_fd): the parent releases the barrier.
ReleaseBarrier ==
    /\ ppc = "release"
    /\ plog' = Append(plog, "release")
    /\ pipe' = [pipe EXCEPT !.writers = @ \ {"parent"}]
    /\ ParentGoes("wait")
    /\ UNCHANGED <<cfgVars, childVars, readVars, CHILD_PIDFD, mapVars,
                   sigVars, waitVars, envVars, write_errno>>

\* wait_for_child(child_pid) of the supervising path.
WaitChild == WaitForChild("wait", "exit")

\* process::exit with the status derived from the child's exit reason.
ExitCodeOf(reason) ==
    IF reason.tag = "Exited" THEN reason.val ELSE 128 + reason.val

ParentExit ==
    /\ ppc = "exit"
    /\ plog' = Append(plog, "exit")
    /\ ParentExits(ExitCodeOf(wait_result))
    /\ UNCHANGED <<cfgVars, childVars, readVars, CHILD_PIDFD, mapVars,
                   sigVars, waitVars, envVars, write_errno>>

(* ---- signals delivered to the parent ---- *)
ParentRunPcs ==
    {"pidfd_open", "write_uid_map", "write_gid_map", "get_username", "subuid",
     "subgid", "newuidmap", "newuidmap_wait", "newgidmap", "newgidmap_wait",
     "kill", "cleanup_wait", "return_err",
     "install", "release", "wait", "exit"}

\* forward_signal_handler that always sends SIGTERM.
forward_signal_handler_sigterm(sig) ==
    LET pidfd == CHILD_PIDFD IN
    IF pidfd >= 0
    THEN /\ sent' = Append(sent, <<pidfd, SIGTERM>>)
         /\ csig' = IF cproc = "alive" THEN csig \cup {SIGTERM} ELSE csig
    ELSE UNCHANGED <<sent, csig>>

\* forward_signal_handler(sig), run on delivery of an installed signal.
forward_signal_handler(sig) ==
    LET pidfd == CHILD_PIDFD IN
    IF pidfd >= 0
    THEN /\ sent' = Append(sent, <<pidfd, sig>>)
         /\ csig' = IF cproc = "alive" THEN csig \cup {sig} ELSE csig
    ELSE UNCHANGED <<sent, csig>>

\* ForwardSignal whose delivery makes a pending waitpid fail (no restart).
ForwardSignalInterruptsWait ==
    \E sig \in Range(FORWARDED_SIGNALS) :
        /\ ppc \in ParentRunPcs
        /\ sig \in handlers
        /\ Len(delivered) < MaxDeliveries
        /\ delivered' = Append(delivered, sig)
        /\ forward_signal_handler(sig)
        /\ IF ppc = "wait" THEN ParentExits(1) ELSE UNCHANGED <<ppc, pexit, pipe>>
        /\ UNCHANGED <<cfgVars, presult, cpc, cresult, cproc, cstatus,
                       clog, readVars, CHILD_PIDFD, mapVars,
                       handlers, waitVars, envVars, write_errno, plog>>

\* Delivery of a signal whose disposition is forward_signal_handler: the
\* handler runs and the interrupted call of the main path is resumed.
ForwardSignal ==
    \E sig \in Range(FORWARDED_SIGNALS) :
        /\ ppc \in ParentRunPcs
        /\ sig \in handlers
        /\ Len(delivered) < MaxDeliveries
        /\ delivered' = Append(delivered, sig)
        /\ forward_signal_handler(sig)
        /\ UNCHANGED <<cfgVars, ppc, presult, pexit, cpc, cresult, cproc, cstatus,
                       clog, readVars, pipe, CHILD_PIDFD, mapVars,
                       handlers, waitVars, envVars, write_errno, plog>>

\* A forwarded signal delivered before signal() was called for it: its
\* disposition is still the default one, which terminates the process.
DefaultSignal ==
    \E sig \in Range(FORWARDED_SIGNALS) :
        /\ ppc \in ParentRunPcs
        /\ sig \notin handlers
        /\ ppc' = "killed"
        /\ pipe' = DropEnds(pipe, "parent")
        /\ UNCHANGED <<cfgVars, presult, pexit, childVars, readVars, CHILD_PIDFD, mapVars, sigVars, waitVars, envVars, write_errno, plog>>

(* ---- the child: isolate() after clone, child_setup ---- *)
Step(op, n, rec) == [op |-> op, n |-> n, rec |-> rec]

\* child_setup returns and drops read_fd, the OwnedFd it was given; the `?` of
\* isolate() hands an error on to the caller, in the child.
ChildReturns(e) ==
    /\ cresult' = e
    /\ cpc' = "returned"
    /\ pipe' = [pipe EXCEPT !.readers = @ \ {"child"}]

\* ChildDropWrite that goes on to the read with the write end still open.
ChildKeepsWrite ==
    /\ cproc = "alive" /\ cpc = "drop_write"
    /\ pipe' = pipe
    /\ cpc' = "read"
    /\ UNCHANGED <<cfgVars, ppc, presult, pexit, cresult, cproc, cstatus, csig, clog,
                   readVars, CHILD_PIDFD, mapVars, sigVars, waitVars,
                   envVars, write_errno, plog>>

\* drop(write_fd) in the child branch of isolate().
ChildDropWrite ==
    /\ cproc = "alive" /\ cpc = "drop_write"
    /\ pipe' = [pipe EXCEPT !.writers = @ \ {"child"}]
    /\ cpc' = "read"
    /\ UNCHANGED <<cfgVars, ppc, presult, pexit, cresult, cproc, cstatus, csig, clog,
                   readVars, CHILD_PIDFD, mapVars, sigVars, waitVars,
                   envVars, write_errno, plog>>

\* read(2) of one byte from a pipe returns once a byte is there or no write
\* end is open any more (end of file).
ReadReturns(p) == p.bytes > 0 \/ p.writers = {}

\* The barrier read of child_setup; the number of bytes read is not looked at.
ChildRead ==
    /\ cproc = "alive" /\ cpc = "read"
    /\ \/ /\ ReadReturns(pipe)
          /\ pipe' = [pipe EXCEPT !.bytes = IF @ > 0 THEN @ - 1 ELSE 0]
          /\ clog' = Append(clog, Step("read", 0, FALSE))
          /\ cpc' = "mount_private"
          /\ cresult' = cresult
       \/ /\ ChildReturns("unable to wait for parent")
          /\ clog' = clog
    /\ UNCHANGED <<cfgVars, ppc, presult, pexit, cproc, cstatus, csig, readVars,
                   CHILD_PIDFD, mapVars, sigVars, waitVars, envVars, write_errno,
                   plog>>

\* AfterMounts that goes to the chroot before the bind mounts.
AfterMountsChrootFirst(done) ==
    IF chroot_path # "none" /\ done = 0 THEN "chroot"
    ELSE IF done < Len(bind_mounts) THEN "bind"
    ELSE "return_ok"

\* Where child_setup goes after the mount-private step and after each bind mount.
AfterMounts(done) ==
    IF done < Len(bind_mounts) THEN "bind"
    ELSE IF chroot_path # "none" THEN "chroot" ELSE "return_ok"

\* mount(NULL, "/", NULL, MS_REC | MS_PRIVATE, NULL)
ChildMountPrivate ==
    /\ cproc = "alive" /\ cpc = "mount_private"
    /\ \/ /\ clog' = Append(clog, Step("mount_private", 0, TRUE))
          /\ cpc' = AfterMounts(0)
          /\ cresult' = cresult /\ pipe' = pipe
       \/ /\ ChildReturns("unable to make '/' private")
          /\ clog' = clog
    /\ UNCHANGED <<cfgVars, ppc, presult, pexit, cproc, cstatus, csig, readVars,
                   CHILD_PIDFD, mapVars, sigVars, waitVars,
                   envVars, write_errno, plog>>

\* Number of bind mounts the child has made.
BindsDone == Cardinality({i \in DOMAIN clog : clog[i].op = "bind"})

\* ChildBindMount that walks bind_mounts from its end.
ChildBindMountReversed ==
    /\ cproc = "alive" /\ cpc = "bind"
    /\ LET i == BindsDone + 1
           bm == bind_mounts[Len(bind_mounts) + 1 - i] IN
       \/ /\ clog' = Append(clog, Step("bind", bm.src, bm.recursive))
          /\ cpc' = AfterMounts(i)
          /\ cresult' = cresult /\ pipe' = pipe
       \/ /\ \E e \in {"invalid source path", "invalid destination path",
                       "bind mount failed"} : ChildReturns(e)
          /\ clog' = clog
    /\ UNCHANGED <<cfgVars, ppc, presult, pexit, cproc, cstatus, csig, readVars,
                   CHILD_PIDFD, mapVars, sigVars, waitVars,
                   envVars, write_errno, plog>>

\* setup_bind_mount for the next descriptor of the loop of child_setup.
ChildBindMount ==
    /\ cproc = "alive" /\ cpc = "bind"
    /\ LET i == BindsDone + 1
           bm == bind_mounts[i] IN
       \/ /\ clog' = Append(clog, Step("bind", bm.src, bm.recursive))
          /\ cpc' = AfterMounts(i)
          /\ cresult' = cresult /\ pipe' = pipe
       \/ /\ \E e \in {"invalid source path", "invalid destination path",
                       "bind mount failed"} : ChildReturns(e)
          /\ clog' = clog
    /\ UNCHANGED <<cfgVars, ppc, presult, pexit, cproc, cstatus, csig, readVars,
                   CHILD_PIDFD, mapVars, sigVars, waitVars,
                   envVars, write_errno, plog>>

\* setup_chroot: chroot(path)
ChildChroot ==
    /\ cproc = "alive" /\ cpc = "chroot"
    /\ \/ /\ clog' = Append(clog, Step("chroot", 0, FALSE))
          /\ cpc' = "chdir"
          /\ cresult' = cresult /\ pipe' = pipe
       \/ /\ ChildReturns("unable to chroot")
          /\ clog' = clog
    /\ UNCHANGED <<cfgVars, ppc, presult, pexit, cproc, cstatus, csig, readVars,
                   CHILD_PIDFD, mapVars, sigVars, waitVars,
                   envVars, write_errno, plog>>

\* setup_chroot: chdir("/")
ChildChdir ==
    /\ cproc = "alive" /\ cpc = "chdir"
    /\ \/ /\ clog' = Append(clog, Step("chdir", 0, FALSE))
          /\ cpc' = "return_ok"
          /\ cresult' = cresult /\ pipe' = pipe
       \/ /\ ChildReturns("unable to change directory to '/' after chroot")
          /\ clog' = clog
    /\ UNCHANGED <<cfgVars, ppc, presult, pexit, cproc, cstatus, csig, readVars,
                   CHILD_PIDFD, mapVars, sigVars, waitVars,
                   envVars, write_errno, plog>>

\* child_setup returned Ok(()); isolate() returns Ok(()) in the child.
ChildReturnOk ==
    /\ cproc = "alive" /\ cpc = "return_ok"
    /\ ChildReturns("Ok")
    /\ UNCHANGED <<cfgVars, ppc, presult, pexit, cproc, cstatus, csig, clog, readVars,
                   CHILD_PIDFD, mapVars, sigVars, waitVars,
                   envVars, write_errno, plog>>

\* The caller's code in the child process ends with some exit code.
ChildExit ==
    /\ cproc = "alive" /\ cpc = "returned"
    /\ \E code \in ExitCodes : cstatus' = ExitedStatus(code)
    /\ csig' = {}
    /\ cproc' = "zombie"
    /\ cpc' = "dead"
    /\ pipe' = DropEnds(pipe, "child")
    /\ UNCHANGED <<cfgVars, ppc, presult, pexit, cresult, clog, readVars,
                   CHILD_PIDFD, mapVars, sigVars, waitVars, envVars, write_errno,
                   plog>>

\* A signal sent to the child terminates it.
ChildKilled ==
    /\ cproc = "alive"
    /\ \E sig \in csig :
         /\ cstatus' \in KilledStatuses(sig)
         /\ csig' = {}
    /\ cproc' = "zombie"
    /\ cpc' = "dead"
    /\ pipe' = DropEnds(pipe, "child")
    /\ UNCHANGED <<cfgVars, ppc, presult, pexit, cresult, clog, readVars, CHILD_PIDFD, mapVars, sigVars, waitVars, envVars, write_errno, plog>>

\* A signal other than SIGKILL sent to the child is handled or ignored by it.
ChildSurvives ==
    /\ cproc = "alive"
    /\ \E sig \in csig \ {SIGKILL} : csig' = csig \ {sig}
    /\ UNCHANGED <<cfgVars, ppc, presult, pexit, cpc, cresult, cproc, cstatus, clog,
                   readVars, pipe, CHILD_PIDFD, mapVars, sigVars,
                   waitVars, envVars, write_errno, plog>>

Next ==
    \/ with_bind_mount \/ with_recursive_bind_mount \/ with_chroot
    \/ CheckSingleThreaded \/ ReadParentUidMap \/ ReadParentGidMap \/ CreatePipe
    \/ Clone \/ ParentDropRead \/ PidfdOpen
    \/ WriteUidMap \/ WriteGidMap
    \/ GetUsername \/ ParseSubuid \/ ParseSubgid
    \/ NewUidMap \/ NewUidMapStatus \/ NewGidMap \/ NewGidMapStatus
    \/ KillChild \/ WaitAfterKill \/ ReturnMapError
    \/ InstallHandler \/ ReleaseBarrier \/ WaitChild \/ ParentExit
    \/ ForwardSignal \/ DefaultSignal
    \/ ChildDropWrite \/ ChildRead \/ ChildMountPrivate \/ ChildBindMount
    \/ ChildChroot \/ ChildChdir \/ ChildReturnOk
    \/ NewUidMapHelper \/ NewGidMapHelper
    \/ ChildExit \/ ChildKilled \/ ChildSurvives

Spec == Init /\ [][Next]_vars

(* ---- scheduling ---- *)
\* The steps of the calling process from the start of isolate() on that are a
\* computation or a system call that returns by itself.  waitpid(pid, .., 0)
\* is not among them: it blocks for as long as the child lives.
ParentStep ==
    \/ CheckSingleThreaded \/ ReadParentUidMap \/ ReadParentGidMap \/ CreatePipe
    \/ Clone \/ ParentDropRead \/ PidfdOpen
    \/ WriteUidMap \/ WriteGidMap
    \/ GetUsername \/ ParseSubuid \/ ParseSubgid
    \/ NewUidMap \/ NewUidMapStatus \/ NewGidMap \/ NewGidMapStatus
    \/ KillChild \/ ReturnMapError
    \/ InstallHandler \/ ReleaseBarrier \/ ParentExit

\* waitpid returns once the child has ended.
WaitpidReturns == cproc = "zombie" /\ (WaitChild \/ WaitAfterKill)

\* newuidmap and newgidmap are short programs that end.
HelperStep == NewUidMapHelper \/ NewGidMapHelper

\* The kernel terminates a process that was sent SIGKILL.
SigkillTakesEffect == SIGKILL \in csig /\ ChildKilled

\* The processes are scheduled: the parent takes its next step, a waitpid
\* returns when the child has ended, the child closes its write end, a
\* started helper ends, a SIGKILL takes effect.  Signals from outside, the
\* builder calls and what the caller does after isolate() returned are under
\* no obligation.
\* In the runs checked for progress and in those of repeated calls the
\* Isolator is configured with at most one bind mount (plain or recursive,
\* with or without a chroot); every signal is delivered as in Next.
NextFair == Next /\ Len(bind_mounts') <= 1

SpecFair ==
    /\ Init /\ [][NextFair]_vars
    /\ WF_vars(ParentStep)
    /\ WF_vars(WaitpidReturns)
    /\ WF_vars(ChildDropWrite)
    /\ WF_vars(HelperStep)
    /\ WF_vars(SigkillTakesEffect)

(* ---- a further call of isolate() in the same process ---- *)
\* isolate(&self) borrows the Isolator, so after it returned an error to the
\* calling process the caller still holds the Isolator and can call it again.
\* The new call starts afresh and reads /proc/self/status anew (the number of
\* threads may have changed); what the earlier call left in the process
\* (CHILD_PIDFD, the pidfd it opened, signal dispositions) stays.
IsolateAgain ==
    /\ ppc = "returned"
    /\ FreePidfds # {}
    /\ ppc' = "build"
    /\ presult' = "none"
    /\ parent_uid_map' = <<>> /\ parent_gid_map' = <<>>
    /\ pipe' = NoPipe
    /\ cpc' = "none" /\ cresult' = "none" /\ cproc' = "none"
    /\ cstatus' = -1 /\ csig' = {} /\ clog' = <<>>
    /\ uid_map' = <<>> /\ gid_map' = <<>> /\ helper' = NoHelper
    /\ map_error' = "none" /\ write_errno' = NoWrites
    /\ wait_result' = NoReason /\ waits' = 0
    /\ plog' = <<>>
    /\ proc_status' \in StatusFiles
    /\ UNCHANGED <<cfgVars, pexit, CHILD_PIDFD, sigVars, fn_in, fn_out>>

NextAgain == NextFair \/ IsolateAgain

\* Any sequence of isolate() calls made by one process.
SpecAgain == Init /\ [][NextAgain]_vars

(* ---- make_identity_map and parse_subid_file applied on their own ---- *)
MaxLines == 2
MaxTokens == 4

\* Maps of k lines of up to MaxTokens whitespace-separated tokens each (blank
\* lines and lines of one, two or more than three tokens included), and the
\* two-line map of a parent with a subordinate range.
Tokens == {0, 1000}
TokenLines == UNION {[1..k -> Tokens] : k \in 0..MaxTokens}
MapsOfLen(k) == [1..k -> TokenLines]
ExampleMap == << <<0, 1000, 1>>, <<1, 100000, 65536>> >>

\* Subid files of k lines of one to three fields, and files with the lines
\* `alice:100000:65536`, `bob:200000:65536`, `alice:bad:1`, a number above
\* u32::MAX and a line of four fields.
NameFields == {Field("alice"), Padded("alice"), Field("bob")}
NumFields == {Field(100000), Padded(65536), Field(-1)}
SubidLines ==
    {<<n>> : n \in NameFields}
        \cup {<<n, a>> : n \in NameFields, a \in NumFields}
        \cup {<<n, a, b>> : n \in NameFields, a \in NumFields, b \in NumFields}
FilesOfLen(k) == [1..k -> SubidLines]
ExampleFiles ==
    { << <<Field("alice"), Field(100000), Field(65536)>>,
         <<Field("bob"), Field(200000), Field(65536)>> >>,
      << <<Field("alice"), Field(-1), Field(1)>>,
         <<Field("alice"), Field(-2), Field(1)>>,
         <<Field("alice"), Field(100000), Field(65536), Field("x")>>,
         <<Field("alice"), Field(1), Field(1)>> >> }
LookupNames == {"alice", "carol"}

MapCall(m) == [fn |-> "make_identity_map", map |-> m, file |-> NoFile, username |-> ""]
SubidCall(f, u) == [fn |-> "parse_subid_file", map |-> <<>>, file |-> f, username |-> u]

InitFn ==
    /\ InitIsolator
    /\ proc_status = NoFile
    /\ \/ \E k \in 0..MaxLines : \E m \in MapsOfLen(k) : fn_in = MapCall(m)
       \/ fn_in = MapCall(ExampleMap)
       \/ \E u \in LookupNames :
             \/ \E k \in 0..MaxLines : \E ls \in FilesOfLen(k) :
                   fn_in = SubidCall([ok |-> TRUE, lines |-> ls], u)
             \/ \E ls \in ExampleFiles :
                   fn_in = SubidCall([ok |-> TRUE, lines |-> ls], u)
             \/ fn_in = SubidCall(NoFile, u)
    /\ fn_out = <<>>

\* make_identity_map applied to the argument, then to its own result.
ApplyMakeIdentityMap ==
    /\ fn_in.fn = "make_identity_map"
    /\ Len(fn_out) < 2
    /\ fn_out' = Append(fn_out, make_identity_map(IF fn_out = <<>> THEN fn_in.map
                                                  ELSE fn_out[1]))
    /\ UNCHANGED <<cfgVars, ppc, presult, pexit, childVars, readVars, pipe,
                   CHILD_PIDFD, mapVars, sigVars, waitVars, proc_status,
                   write_errno, fn_in, plog>>

ApplyParseSubidFile ==
    /\ fn_in.fn = "parse_subid_file"
    /\ fn_out = <<>>
    /\ fn_out' = <<parse_subid_file(fn_in.file, fn_in.username)>>
    /\ UNCHANGED <<cfgVars, ppc, presult, pexit, childVars, readVars, pipe,
                   CHILD_PIDFD, mapVars, sigVars, waitVars, proc_status,
                   write_errno, fn_in, plog>>

NextFn == ApplyMakeIdentityMap \/ ApplyParseSubidFile

SpecFn == InitFn /\ [][NextFn]_vars

(* ======================= properties ======================= *)
Last(s) == s[Len(s)]
Did(log, name) == \E i \in DOMAIN log : log[i] = name
ChildDid(op) == \E i \in DOMAIN clog : clog[i].op = op

\* The child has proceeded past the barrier read.
ChildPastBarrier == ChildDid("read")
MapsWritten == uid_map # <<>> /\ gid_map # <<>>
ParentReleased == Did(plog, "release")
ParentGone == ppc \in {"exited", "killed"}

\* The steps child_setup takes when every one of them succeeds.
ExpectedChildLog ==
    <<Step("read", 0, FALSE), Step("mount_private", 0, TRUE)>>
        \o [i \in 1..Len(bind_mounts) |->
               Step("bind", bind_mounts[i].src, bind_mounts[i].recursive)]
        \o (IF chroot_path # "none"
            THEN <<Step("chroot", 0, FALSE), Step("chdir", 0, FALSE)>> ELSE <<>>)

\* C1: whenever the child is past the barrier read, both its uid_map and its
\* gid_map have been written, on every parent path (the parent's exit included).
C1_MapsWrittenPastBarrier == ChildPastBarrier => MapsWritten

\* C2: the child completes the barrier read, and so any mount, chroot or chdir,
\* only when no write end of the barrier pipe is open any more.
C2_BlockedWhileWriteEndOpen == clog # <<>> => pipe.writers = {}

C2_Witness ==
    /\ ChildDid("bind") /\ ChildDid("chdir")
    /\ pipe.writers = {} /\ ppc = "wait"

\* C3: isolate() never returns Ok in the parent; after the release the parent
\* only waits and exits, never returns, and the status it exits with is the
\* child's exit code, 128 + the signal that killed the child, or 1; Ok in the
\* child comes only after the barrier read, mount-private, every bind mount
\* and chroot+chdir succeeded.
C3_OkOnlyInChild ==
    /\ presult # "Ok"
    /\ ParentReleased => (ppc \in {"wait", "exit", "exited"} /\ presult = "none")
    /\ (ParentReleased /\ ppc = "exited") =>
          \/ /\ Last(plog) = "exit" /\ WIFEXITED(cstatus)
             /\ pexit = WEXITSTATUS(cstatus)
          \/ /\ Last(plog) = "exit" /\ WIFSIGNALED(cstatus)
             /\ pexit = 128 + WTERMSIG(cstatus)
          \/ pexit = 1
    /\ cresult = "Ok" => clog = ExpectedChildLog

\* C4: a failed child-side step terminates the child: isolate() never returns
\* an error to its caller in the child process.
C4_ChildNeverReturnsError == cresult \in {"none", "Ok"}

\* C5: when isolate() returns a map-writing error, the child was sent SIGKILL
\* and has been reaped, and the error is the one write_maps returned.
C5_ReapedBeforeMapError ==
    (ppc = "returned" /\ map_error # "none") =>
        /\ Did(plog, "kill")
        /\ cproc = "reaped"
        /\ presult = map_error

C5_Witness ==
    /\ ppc = "returned" /\ map_error = "failed to write gid_map"
    /\ cproc = "reaped" /\ cstatus = SignaledStatus(SIGKILL, FALSE)

\* C6: every run of the forwarding handler for a signal S made exactly one
\* pidfd_send_signal call, on the stored pidfd of the child, with S itself.
C6_ForwardedOnce ==
    /\ Len(sent) = Len(delivered)
    /\ \A i \in DOMAIN delivered :
         /\ delivered[i] \in Range(FORWARDED_SIGNALS)
         /\ sent[i] = <<CHILD_PIDFD, delivered[i]>>
         /\ CHILD_PIDFD \in PidFds

C6_Witness ==
    /\ delivered = <<SIGUSR2>> /\ sent # <<>> /\ ppc = "wait" /\ cproc = "alive"

\* The parent's log reduced to its milestones: map-writing steps are "maps",
\* repeated steps count once, the reads and the pipe creation are left out.
Milestone(x) ==
    IF x \in {"write_uid_map", "write_gid_map", "write_maps_with_helpers",
              "get_username", "subuid", "subgid", "newuidmap", "newgidmap"}
    THEN "maps" ELSE x

RECURSIVE Milestones(_)
Milestones(log) ==
    IF log = <<>> THEN <<>>
    ELSE LET rest == Milestones(Tail(log))
             m == Milestone(Head(log)) IN
         IF m \in {"read_uid_map", "read_gid_map", "pipe"} THEN rest
         ELSE IF rest # <<>> /\ Head(rest) = m THEN rest
         ELSE <<m>> \o rest

SuccessExit == ppc = "exited" /\ Last(plog) = "exit"

\* C7: on the parent's success path the steps are, in order and none skipped:
\* thread check, clone, pidfd_open, both maps, handlers, release, waitpid, exit;
\* the pidfd is stored before any map write, the handlers are installed after
\* the maps and before the release.
C7_ParentStepOrder ==
    /\ (uid_map # <<>> \/ gid_map # <<>>) => CHILD_PIDFD >= 0
    /\ handlers # {} => MapsWritten
    /\ ParentReleased => handlers = Range(FORWARDED_SIGNALS)
    /\ SuccessExit =>
         /\ Milestones(plog) = <<"check", "clone", "pidfd_open", "maps", "signal",
                                 "release", "waitpid", "exit">>
         /\ MapsWritten

C7_Witness == SuccessExit /\ Did(plog, "newgidmap") /\ pexit = 0

\* C8: when the parent died or exited before releasing the barrier, the child
\* never gets to return Ok from isolate().
C8_ChildAbortsOnParentDeath ==
    (ParentGone /\ ~ParentReleased) => cresult # "Ok"

\* The first Threads: line of /proc/self/status gives more than one thread.
MultiThreaded ==
    /\ proc_status.ok
    /\ \E i \in DOMAIN proc_status.lines :
         /\ proc_status.lines[i].key = "Threads:" /\ proc_status.lines[i].val > 1
         /\ \A j \in 1..(i - 1) : proc_status.lines[j].key # "Threads:"

\* C9: in a process with more than one thread isolate() returns the
\* multi-threaded error, other than the thread-count-unknown error, and has
\* made no pipe and no child; the gate is the first step of isolate().
C9_MultiThreadedGate ==
    /\ plog # <<>> => plog[1] = "check"
    /\ (plog # <<>> /\ MultiThreaded) =>
         /\ presult = "process is multi-threaded"
         /\ presult # "unable to determine thread count"
         /\ plog = <<"check">>
         /\ ~pipe.made /\ cproc = "none" /\ ppc = "returned"
    /\ (plog # <<>> /\ ~proc_status.ok) => presult = "unable to determine thread count"

C9_Witness == plog # <<>> /\ MultiThreaded /\ presult = "process is multi-threaded"

\* C10: the status the parent exits with is the child's exit code, 128 + the
\* signal that killed the child, or 1 after a failed pidfd_open, kill or
\* waitpid; a child-derived status is used only once waitpid reported the
\* child exited or signaled, any other wait result leaves the parent waiting.
C10_ParentExitStatus ==
    /\ ppc = "exited" =>
         \/ /\ Last(plog) = "exit" /\ cproc = "reaped"
            /\ \/ \E code \in ExitCodes : cstatus = ExitedStatus(code) /\ pexit = code
               \/ \E sig \in Range(FORWARDED_SIGNALS) \cup {SIGKILL} :
                     /\ WIFSIGNALED(cstatus) /\ WTERMSIG(cstatus) = sig
                     /\ pexit = 128 + sig
         \/ /\ Last(plog) \in {"pidfd_open", "kill", "waitpid"} /\ pexit = 1
    /\ ppc = "exit" => (cproc = "reaped" /\ wait_result.tag # "none")
    /\ (ppc \in {"wait", "cleanup_wait"} /\ waits > 0) => wait_result = NoReason

HelperSteps == {"get_username", "subuid", "subgid", "newuidmap", "newgidmap"}
HelperPathEntered == Did(plog, "write_maps_with_helpers")
HelperStepTaken == \E i \in DOMAIN plog : plog[i] \in HelperSteps

\* C11: the helper path is entered exactly when the direct write of uid_map
\* failed with EPERM; any other error of that write is the error of
\* write_maps and no helper step is taken; once uid_map was written directly,
\* every failure of the gid_map write (EPERM too) is the error of write_maps
\* and no helper step is taken; on the helper path gid_map is never written
\* directly.
C11_HelperPathIffEperm ==
    /\ HelperPathEntered <=> write_errno.uid = EPERM
    /\ HelperStepTaken => HelperPathEntered
    /\ write_errno.uid \in WriteErrnos \ {EPERM} =>
            /\ map_error = "failed to write uid_map"
            /\ ~HelperStepTaken
            /\ ~Did(plog, "write_gid_map")
    /\ write_errno.gid \in WriteErrnos =>
            /\ write_errno.uid = 0
            /\ map_error = "failed to write gid_map"
            /\ ~HelperStepTaken
    /\ HelperPathEntered => write_errno.gid = -1 /\ ~Did(plog, "write_gid_map")
C11_Witness ==
    /\ write_errno.uid = EPERM
    /\ Did(plog, "newgidmap")
    /\ MapsWritten

\* The step of parent_run that stores a pidfd into CHILD_PIDFD.
StoresPidfd == ppc = "pidfd_open" /\ ppc' = "write_uid_map"
\* The step of isolate() that creates a child.
CreatesChild == cproc = "none" /\ cproc' = "alive"

\* C12: over all the isolate() calls a process makes, a call after an earlier
\* one returned an error included, CHILD_PIDFD is written at most once and
\* never reset, and the process has at most one child: once the cell holds a
\* pidfd, no step stores into it again, resets it, or creates another child.
C12_PidfdWrittenOnce ==
    [][CHILD_PIDFD # NoPidfd =>
          /\ CHILD_PIDFD' = CHILD_PIDFD
          /\ ~StoresPidfd
          /\ ~CreatesChild]_vars

\* The ID that `id` of the namespace with map `map` is mapped to in the
\* namespace outside it (-1: `id` is not mapped).
MapsTo(map, id) ==
    LET hits == {i \in DOMAIN map : map[i][1] <= id /\ id < map[i][1] + map[i][3]} IN
    IF hits = {} THEN -1
    ELSE LET i == CHOOSE j \in hits : TRUE IN map[i][2] + (id - map[i][1])

\* C13: whenever the child is past the barrier with its maps written, UID 0
\* of the child's user namespace is mapped, and it is mapped to the UID of the
\* calling process, on the helper path and on the direct path alike.
C13_RootMapsToCaller ==
    (ChildPastBarrier /\ MapsWritten) =>
        \A u \in RealIds : MapsTo(uid_map, 0) = u

\* The bind mounts the child has made, in the order it made them.
BindSteps == SelectSeq(clog, LAMBDA st : st.op = "bind")

\* C14: the child makes the bind mounts in the order of the builder calls, one
\* per call, the i-th with the path of the i-th call and recursively exactly
\* when that call was with_recursive_bind_mount; a mount is attempted only
\* after all earlier ones succeeded, and Ok is returned only after all of them.
C14_BindMountOrder ==
    /\ Len(bind_mounts) = Len(bind_calls)
    /\ Len(BindSteps) <= Len(bind_calls)
    /\ \A i \in DOMAIN BindSteps :
           BindSteps[i] = Step("bind", i, bind_calls[i] = "with_recursive_bind_mount")
    /\ (cproc = "alive" /\ cpc = "bind") => Len(BindSteps) < Len(bind_calls)
    /\ cresult = "Ok" => Len(BindSteps) = Len(bind_calls)
C14_Witness ==
    /\ cresult = "Ok"
    /\ Len(BindSteps) = 2
    /\ bind_calls[1] = "with_recursive_bind_mount"
    /\ bind_calls[2] = "with_bind_mount"

IsMapCall == fn_in.fn = "make_identity_map"
ThreeTokenLines(map) == map # <<>> /\ \A i \in DOMAIN map : Len(map[i]) = 3

\* C15: for a map whose lines are all `inside outside count`,
\* make_identity_map returns, line by line in the same order,
\* `inside inside count`; "0 1000 1\n1 100000 65536\n" gives
\* "0 0 1\n1 1 65536\n".
C15_IdentityLines ==
    (IsMapCall /\ fn_out # <<>> /\ ThreeTokenLines(fn_in.map)) =>
        LET m == fn_in.map IN
        /\ fn_out[1] = [i \in DOMAIN m |-> <<m[i][1], m[i][1], m[i][3]>>]
        /\ m = ExampleMap => fn_out[1] = << <<0, 0, 1>>, <<1, 1, 65536>> >>
C15_Witness ==
    /\ IsMapCall /\ fn_in.map = ExampleMap
    /\ fn_out # <<>> /\ fn_out[1] = << <<0, 0, 1>>, <<1, 1, 65536>> >>

\* C16: make_identity_map is idempotent: applied to its own result it returns
\* that result, for every map (the empty one and maps with lines of fewer or
\* more than three tokens included).
C16_Idempotent ==
    (IsMapCall /\ Len(fn_out) = 2) => fn_out[2] = fn_out[1]
C16_Witness ==
    /\ IsMapCall /\ Len(fn_out) = 2
    /\ \E i \in DOMAIN fn_in.map : Len(fn_in.map[i]) = 4
    /\ \E i \in DOMAIN fn_in.map : Len(fn_in.map[i]) = 2
    /\ fn_out[1] # fn_in.map

\* C17: for an empty parent map the map made for the child is the single line
\* `0 0 1`, and for no parent map is the map made for the child empty.
C17_DefaultMap ==
    (IsMapCall /\ fn_out # <<>>) =>
        /\ fn_in.map = <<>> => fn_out[1] = << <<0, 0, 1>> >>
        /\ fn_out[1] # <<>>
C17_Witness ==
    /\ IsMapCall /\ fn_in.map = <<>>
    /\ fn_out # <<>> /\ fn_out[1] = << <<0, 0, 1>> >>

IsSubidCall == fn_in.fn = "parse_subid_file" /\ fn_in.file.ok
\* A line the lookup accepts for the name: its first field is the name and its
\* second and third fields are numbers that fit u32, whitespace around a field
\* not counting.
Accepts(line, username) ==
    /\ Len(line) >= 3
    /\ line[1].v = username
    /\ line[2].v >= 0
    /\ line[3].v >= 0
Accepted(lines, username) == {i \in DOMAIN lines : Accepts(lines[i], username)}

\* C18: the subid lookup returns the start and count of the first line of the
\* file that it accepts for the name, skipping the lines that do not match or
\* do not parse, and nothing when there is no such line; in the file
\* `alice:100000:65536`, `bob:200000:65536` alice has {100000, 65536} and
\* carol has nothing.
C18_SubidLookup ==
    (IsSubidCall /\ fn_out # <<>>) =>
        LET ls == fn_in.file.lines
            hits == Accepted(ls, fn_in.username) IN
        /\ hits = {} => fn_out[1].tag = "none"
        /\ hits # {} =>
              LET i == CHOOSE j \in hits : \A k \in hits : j <= k IN
              fn_out[1] = [tag |-> "some", start |-> ls[i][2].v, count |-> ls[i][3].v]
        /\ (Len(ls) = 2 /\ ls[1] = <<Field("alice"), Field(100000), Field(65536)>>) =>
              \/ fn_in.username = "alice"
                   /\ fn_out[1] = [tag |-> "some", start |-> 100000, count |-> 65536]
              \/ fn_in.username = "carol" /\ fn_out[1].tag = "none"
C18_Witness ==
    /\ IsSubidCall /\ fn_out # <<>>
    /\ fn_in.username = "alice"
    /\ Len(fn_in.file.lines) >= 2
    /\ fn_in.file.lines[1] = <<Field("alice"), Field(-1), Field(100000)>>
    /\ fn_in.file.lines[2][1] = Padded("alice")
    /\ fn_out[1] = [tag |-> "some", start |-> 100000, count |-> 65536]

\* C19: once the clone succeeded, whenever the parent has exited or has
\* returned from isolate(), the child has terminated and has been reaped.
C19_NoLeakedChild ==
    (cproc # "none" /\ ppc \in {"exited", "returned"}) => cproc = "reaped"

IsPrefix(a, b) == Len(a) <= Len(b) /\ SubSeq(b, 1, Len(a)) = a
ChildFailed == cresult \notin {"none", "Ok"}

\* C20: the child's steps are, in this order, the barrier read, the
\* mount-private, every bind mount, then chroot directly followed by chdir,
\* then the return: at every moment the steps done are an initial part of
\* that list, each step adds one entry, Ok is returned only with the whole
\* list done, and once a step has failed (or the child has returned) no
\* further step is done and the result stays.
C20_ChildPhasesForward ==
    /\ [](/\ IsPrefix(clog, ExpectedChildLog)
          /\ cresult = "Ok" => clog = ExpectedChildLog
          /\ ChildFailed => Len(clog) < Len(ExpectedChildLog))
    /\ [][/\ clog' # clog => clog' = Append(clog, Last(clog'))
          /\ cresult # "none" => (clog' = clog /\ cresult' = cresult)]_vars
C20_Witness ==
    /\ cresult = "unable to change directory to '/' after chroot"
    /\ Len(bind_mounts) = 2
    /\ clog = SubSeq(ExpectedChildLog, 1, Len(ExpectedChildLog) - 1)

HelperOrder == <<"write_maps_with_helpers", "get_username", "subuid", "subgid",
                 "newuidmap", "newgidmap">>
HelperLog == SelectSeq(plog, LAMBDA x : x \in Range(HelperOrder))
HelperFailed ==
    \/ helper.uid_exit \notin {-1, 0}
    \/ helper.gid_exit \notin {-1, 0}

\* Command::status() has returned the helper's status to the parent (a parent
\* killed by a signal while it waits never gets it).
StatusTaken == ppc \notin {"newuidmap_wait", "newgidmap_wait", "killed"}

\* What write_maps_with_helpers returns when a helper ran and status() did not
\* return a successful status.
HelperErrors ==
    {"'newuidmap' failed", "newgidmap failed",
     "failed to execute 'newuidmap'", "failed to execute 'newgidmap'"}

\* C21: on the helper path the steps are, in this order, the username lookup,
\* the /etc/subuid lookup, the /etc/subgid lookup, newuidmap, newgidmap; a
\* helper runs only with the username and both ranges found; newgidmap runs
\* only after newuidmap exited with 0; the parent goes on past the maps only
\* with both helpers having exited with 0, and after a non-zero exit of either
\* the parent, once it has the status, is on its error path; it installs no
\* handler and never releases the child.
C21_HelperStepOrder ==
    /\ IsPrefix(HelperLog, HelperOrder)
    /\ Did(plog, "newuidmap") =>
          /\ helper.username # ""
          /\ helper.subuid # NoRange /\ helper.subgid # NoRange
    /\ Did(plog, "newgidmap") => helper.uid_exit = 0
    /\ helper.uid_exit # 0 => helper.gid_exit = -1
    /\ (HelperPathEntered /\ (Did(plog, "signal") \/ ppc = "install")) =>
          /\ helper.uid_exit = 0 /\ helper.gid_exit = 0
          /\ uid_map = HelperMap(helper.real_uid, helper.subuid)
          /\ gid_map = HelperMap(helper.real_gid, helper.subgid)
    /\ HelperFailed =>
          /\ StatusTaken => map_error \in HelperErrors
          /\ ppc \notin {"newgidmap", "install", "release", "wait", "exit"}
          /\ handlers = {} /\ ~ParentReleased
          /\ presult \in {"none", map_error}
C21_Witness ==
    /\ helper.uid_exit = 0 /\ helper.gid_exit = 1
    /\ presult = "newgidmap failed"
    /\ HelperLog = HelperOrder

\* The barrier read can return end-of-file: no write end is open any more.
BarrierOpen == pipe.made /\ pipe.writers = {}

\* C22: once the clone has succeeded, on every path of the parent the child
\* eventually is released (no write end of the pipe is open, so its read
\* returns end-of-file) or is no longer alive.
C22_ChildNotBlockedForever ==
    (cproc = "alive") ~> (BarrierOpen \/ cproc # "alive")
C22_Witness ==
    /\ cproc = "alive" /\ cpc = "read"
    /\ BarrierOpen
    /\ ppc = "exited" /\ pexit = 1 /\ map_error # "none"

Delivery == delivered' # delivered
\* waitpid returned an error and the parent ended on it.
WaitpidFailed ==
    ppc = "exited" /\ pexit \in SupervisorExits /\ Last(plog) = "waitpid"
\* The released child has died of signal S, which the parent had forwarded,
\* and the parent is waiting for it.
DiedOfForwarded(S) ==
    /\ ppc = "wait" /\ S \in Range(delivered)
    /\ cproc = "zombie" /\ WIFSIGNALED(cstatus) /\ WTERMSIG(cstatus) = S
\* The delivery of a forwarded signal leaves the parent's main path as it is.
DeliveryKeepsMainPath ==
    Delivery =>
        /\ ppc' = ppc /\ pexit' = pexit
        /\ presult' = presult /\ wait_result' = wait_result
\* The parent leaves the wait with the child reaped as exited or signaled.
LeavesWaitReaped ==
    /\ ppc' = "exit" /\ cproc' = "reaped"
    /\ wait_result'.tag \in {"Exited", "Signaled"}
ExitedFor(S) == ppc = "exited" /\ pexit = 128 + S /\ cproc = "reaped"

C24_HandlerSeesPidfd ==
    /\ [](handlers # {} =>
            /\ CHILD_PIDFD \in PidFds
            /\ Did(plog, "pidfd_open") /\ ppc \in ParentRunPcs \cup {"exited", "killed"})
    /\ [][/\ Delivery =>
               /\ CHILD_PIDFD # NoPidfd
               /\ sent' = Append(sent, <<CHILD_PIDFD, Last(delivered')>>)
          /\ StoresPidfd => CHILD_PIDFD' \in PidFds \ OpenPidfds(CHILD_PIDFD)
          /\ handlers # {} => CHILD_PIDFD' = CHILD_PIDFD]_vars
C24_Witness ==
    /\ ppc = "install" /\ handlers = {SIGTERM}
    /\ delivered = <<SIGTERM>>
    /\ CHILD_PIDFD = 4
    /\ sent = <<<<CHILD_PIDFD, SIGTERM>>>>

ParentReturned == ppc = "returned"
InstalledPcs == {"install", "release", "wait", "exit", "exited", "killed"}
\* C25: in every process in which isolate() returns, the dispositions of the
\* forwarded signals are the ones it was called with: a parent that returned
\* (with an error from before or after the clone) has no handler installed,
\* the child is created before any handler is installed and no step of the
\* child installs one, a handler is installed only by the parent's install
\* loop with both maps written, and a parent with a handler installed never
\* returns nor starts another call.
C25_ReturnKeepsDispositions ==
    /\ []((ParentReturned \/ presult # "none") => handlers = {})
    /\ [](handlers # {} =>
            MapsWritten /\ ppc \in InstalledPcs /\ map_error = "none")
    /\ [][/\ CreatesChild => handlers = {} /\ handlers' = {}
          /\ handlers' # handlers =>
                /\ ppc = "install" /\ MapsWritten /\ handlers \subseteq handlers'
                /\ cpc' = cpc /\ cresult' = cresult
          /\ handlers # {} => ppc' \in InstalledPcs]_vars
C25_Witness ==
    /\ ParentReturned /\ presult = "newgidmap failed"
    /\ cproc = "reaped" /\ uid_map # <<>> /\ gid_map = <<>>
    /\ CHILD_PIDFD \in PidFds /\ handlers = {}

ChildReturned == cresult # "none"
KilledAtBarrier ==
    /\ cproc = "reaped" /\ cstatus = SignaledStatus(SIGKILL, FALSE)
    /\ clog = <<>> /\ ~ChildReturned
\* C26: control returns to the caller of one isolate() call in at most one
\* process: the parent and the child have never both returned, and a parent
\* that returned after the clone did so with its child killed by SIGKILL while
\* still at the barrier (no step of child_setup done, nothing returned in the
\* child) and reaped.
C26_ReturnsInOneProcess ==
    /\ ~(ParentReturned /\ ChildReturned)
    /\ (ParentReturned /\ cproc # "none") => KilledAtBarrier

====
